---------------------------- MODULE Spec2Model ----------------------------
(***************************************************************************)
(* TBBManager (src/tbb_manager.h, src/tbb_manager.cpp): a registry of      *)
(* named tbb::task_arena objects, the unique task id generator, the two    *)
(* forms of ParallelFor with their per-sub-range context flush, the        *)
(* parsing of FLAGS_custom_tbb_parallel_control, and Release.              *)
(*                                                                         *)
(* Text (std::string) is a sequence of one-character strings.  Widths are  *)
(* scaled: the 32-bit counter counts modulo CounterMod, the timestamp is   *)
(* truncated modulo TsMod, int wraps modulo IntMod.                        *)
(***************************************************************************)
EXTENDS Integers, Sequences, FiniteSets, TLC

\* ------------------------------------------------------------------ bounds
\* caller threads
NumThreads == 2
\* calls of Init / ParallelFor / Release made in one run of Spec
MaxCalls == 3
\* ParallelFor ranges are [1, end) with end up to MaxEnd
MaxEnd == 3
\* the uint32_t counter, scaled: global_counter counts modulo CounterMod
CounterMod == 4
\* the 32-bit truncation of the timestamp, scaled: timestamp = clock % TsMod
TsMod == 2
\* the steady clock's count stays within 0..MaxClock in Spec
MaxClock == 0
\* the steady clock's count stays within 0..MaxIdClock in SpecId
MaxIdClock == 2
\* int, scaled: static_cast<int> wraps into -IntMod/2 .. IntMod/2 - 1
IntMod == 8
\* tbb::this_task_arena::max_concurrency() of the machine
DefaultConcurrency == 2
\* calls of GenerateUniqueTaskId made in one run of SpecId
MaxIdCalls == 6
\* most items in a flag text of SpecCfg
MaxItems == 3

Threads == 1 .. NumThreads

\* the arena names callers use
Names == { <<"x">>, <<"y">> }

\* ------------------------------------------------------------------- text
Digits == <<"0", "1", "2", "3", "4", "5", "6", "7", "8", "9">>

IsDigit(c) == \E d \in 1 .. 10 : Digits[d] = c

DigitVal(c) == (CHOOSE d \in 1 .. 10 : Digits[d] = c) - 1

IsSpace(c) == c = " "

\* std::string::find(ch): the first position (1-based) of ch in s, 0 for npos
Find(s, ch) ==
  IF \E p \in 1 .. Len(s) : s[p] = ch
  THEN CHOOSE p \in 1 .. Len(s) : s[p] = ch /\ \A q \in 1 .. p - 1 : s[q] # ch
  ELSE 0

\* std::string::substr(pos) with a 1-based first position
SubstrFrom(s, from) == SubSeq(s, from, Len(s))

\* std::to_string of a non-negative integer
RECURSIVE to_string(_)
to_string(n) ==
  IF n < 10 THEN << Digits[n + 1] >>
  ELSE to_string(n \div 10) \o << Digits[(n % 10) + 1] >>

\* the items std::getline(ss, item, ',') yields until the stream is exhausted:
\* a text that ends with the delimiter yields no trailing empty item
RECURSIVE GetLines(_)
GetLines(s) ==
  IF s = <<>> THEN <<>>
  ELSE LET p == Find(s, ",") IN
       IF p = 0 THEN << s >>
       ELSE << SubSeq(s, 1, p - 1) >> \o GetLines(SubstrFrom(s, p + 1))

RECURSIVE SkipSpace(_)
SkipSpace(s) ==
  IF s # <<>> /\ IsSpace(Head(s)) THEN SkipSpace(Tail(s)) ELSE s

\* the value of the longest prefix of digits of s, continuing from acc
RECURSIVE DigitsValue(_, _)
DigitsValue(s, acc) ==
  IF s # <<>> /\ IsDigit(Head(s))
  THEN DigitsValue(Tail(s), 10 * acc + DigitVal(Head(s)))
  ELSE acc

\* std::stoi(s): leading whitespace, an optional sign, then digits; what
\* follows the digits is ignored; no digit at all is std::invalid_argument.
\* (std::out_of_range needs more digits than the flag texts here have.)
Stoi(s) ==
  LET t == SkipSpace(s)
      neg == t # <<>> /\ Head(t) = "-"
      u == IF t # <<>> /\ Head(t) \in {"-", "+"} THEN Tail(t) ELSE t
  IN IF u # <<>> /\ IsDigit(Head(u))
     THEN [ok |-> TRUE,
           value |-> IF neg THEN 0 - DigitsValue(u, 0) ELSE DigitsValue(u, 0)]
     ELSE [ok |-> FALSE, value |-> 0]

\* std::map operator[] assignment
MapPut(m, k, v) ==
  [x \in DOMAIN m \cup {k} |-> IF x = k THEN v ELSE m[x]]

EmptyMap == [x \in {} |-> 0]

\* a loop that takes every item for a pair
HasSeparatorAlways(item) == TRUE

\* does the loop body of InitTBBParallelCountDefines treat this item as a pair
HasSeparator(item) == Find(item, ":") # 0

\* the while loop of InitTBBParallelCountDefines over the remaining items:
\* an item without ':' is skipped, a count std::stoi rejects aborts the loop
RECURSIVE ParseItems(_, _)
ParseItems(items, m) ==
  IF items = <<>> THEN [ok |-> TRUE, map |-> m]
  ELSE LET item == Head(items)
           pos == Find(item, ":")
       IN IF HasSeparator(item)
          THEN LET name == SubSeq(item, 1, pos - 1)
                   count == Stoi(SubstrFrom(item, pos + 1))
               IN IF count.ok
                  THEN ParseItems(Tail(items), MapPut(m, name, count.value))
                  ELSE [ok |-> FALSE, map |-> EmptyMap]
          ELSE ParseItems(Tail(items), m)

\* TBBManager::InitTBBParallelCountDefines on a flag text: ok = FALSE when
\* std::stoi throws out of it
InitTBBParallelCountDefines(text) ==
  IF text = <<>> THEN [ok |-> TRUE, map |-> EmptyMap]
  ELSE ParseItems(GetLines(text), EmptyMap)

\* ------------------------------------------------------------------ state
VARIABLES
  FLAGS_custom_tbb_parallel_control, \* the flag text, fixed at start-up
  flag,                 \* the std::once_flag of GetTBBParallelCountDefines
  tbb_parallel_count_defines, \* its cached map
  resolutions,          \* how many times InitTBBParallelCountDefines has run
  task_arenas_,         \* name -> TBBState [arena, initialized]
  arena_objs,           \* every tbb::task_arena constructed so far, in order;
                        \* a shared_ptr is an index into it
  arenas_mutex_,        \* 0, or the thread that holds it
  contexts_mutex_,      \* <<>>, or who holds it: <<t>> (Release) or a
                        \* sub-range callback <<t, begin>>
  thread_contexts_,     \* unique_task_name -> queue of ThreadContext
  global_counter,       \* the static atomic counter of GenerateUniqueTaskId
  clock,                \* the steady clock's count
  pc,                   \* where each caller thread is
  call,                 \* its call: [op, tbb_name, start, end]
  timestamp,            \* GenerateUniqueTaskId's local timestamp
  task_id,              \* ParallelFor's local task_id
  arena,                \* the shared_ptr Init returned to it (0: none)
  outcome,              \* how its last call ended: "none", "ok", "error"
  ranges,               \* per dispatch: sub-ranges the engine has not started
  callbacks,            \* per dispatch: sub-range callbacks being executed
  failed,               \* per dispatch: a body has raised (the engine's
                        \* task group is cancelled)
  calls,                \* calls made so far
  released,             \* Len(arena_objs) when Release last cleared the maps
  raised,               \* per dispatch: the elements whose body raised
  executed,             \* per dispatch: the elements whose body returned
  acquisitions,         \* per dispatch: contexts_mutex_ acquisitions
  subranges,            \* per dispatch: sub-range callbacks invoked
  completed,            \* per dispatch: the sub-ranges whose loop ran to its end
  lost,                 \* per dispatch: the elements whose records were in the
                        \* buffer of a callback that unwound
  issued,               \* the ids GenerateUniqueTaskId has returned
  returned,             \* how many times it has returned
  increments            \* its fetch_adds: the counter value obtained, the
                        \* timestamp the call had read, the truncated clock at
                        \* the fetch_add, and the id returned

configVars == << FLAGS_custom_tbb_parallel_control, flag,
                 tbb_parallel_count_defines, resolutions >>
arenaVars == << task_arenas_, arena_objs >>
idVars == << global_counter, clock, issued, returned, increments >>
callVars == << pc, call, timestamp, task_id, arena, outcome, calls >>
engineVars == << ranges, callbacks, failed >>
observed == << released, raised, executed, acquisitions, subranges,
               completed, lost >>

vars == << configVars, arenaVars, arenas_mutex_, contexts_mutex_,
           thread_contexts_, idVars, callVars, engineVars, observed >>

\* the flag texts Spec starts from: an override for "x" only, and a text
\* whose second count std::stoi rejects
ConfigTexts == { << "x", ":", "1" >>, << "x", ":", "1", ",", "y", ":", "z" >> }

NoCall == [op |-> "none", tbb_name |-> <<>>, start |-> 0, end |-> 0]

BaseInit ==
  /\ flag = FALSE
  /\ tbb_parallel_count_defines = EmptyMap
  /\ resolutions = 0
  /\ task_arenas_ = [n \in {} |-> 0]
  /\ arena_objs = <<>>
  /\ arenas_mutex_ = 0
  /\ contexts_mutex_ = <<>>
  /\ thread_contexts_ = [k \in {} |-> <<>>]
  /\ global_counter = 0
  /\ clock = 0
  /\ pc = [t \in Threads |-> "idle"]
  /\ call = [t \in Threads |-> NoCall]
  /\ timestamp = [t \in Threads |-> 0]
  /\ task_id = [t \in Threads |-> 0]
  /\ arena = [t \in Threads |-> 0]
  /\ outcome = [t \in Threads |-> "none"]
  /\ ranges = [t \in Threads |-> {}]
  /\ callbacks = [t \in Threads |-> {}]
  /\ failed = [t \in Threads |-> FALSE]
  /\ calls = 0
  /\ released = 0
  /\ raised = [t \in Threads |-> {}]
  /\ executed = [t \in Threads |-> {}]
  /\ acquisitions = [t \in Threads |-> 0]
  /\ subranges = [t \in Threads |-> 0]
  /\ completed = [t \in Threads |-> {}]
  /\ lost = [t \in Threads |-> {}]
  /\ issued = {}
  /\ returned = 0
  /\ increments = {}

Init ==
  /\ FLAGS_custom_tbb_parallel_control \in ConfigTexts
  /\ BaseInit

\* --------------------------------------------------- GenerateUniqueTaskId
\* now().time_since_epoch().count() & 0xFFFFFFFF
Truncate(count) == count % TsMod

\* an increment that is lost
FetchAddLost(counter) == counter

\* global_counter.fetch_add(1): the counter's next value
FetchAdd(counter) == (counter + 1) % CounterMod

\* an id whose timestamp is not shifted above the counter
MakeIdUnshifted(ts, counter) == ts + (counter % CounterMod)

\* (timestamp << 32) | (counter & 0xFFFFFFFF)
MakeId(ts, counter) == ts * CounterMod + (counter % CounterMod)

\* a key that leaves the task id out
UniqueTaskNameIsName(name, id) == name

\* tbb_name + "_" + std::to_string(task_id)
UniqueTaskName(name, id) == name \o << "_" >> \o to_string(id)

\* the clock read of GenerateUniqueTaskId by thread t, which finds the steady
\* clock at `now`, its last reading or later
ReadClock(t, now) ==
  /\ now >= clock
  /\ clock' = now
  /\ timestamp' = [timestamp EXCEPT ![t] = Truncate(now)]

\* the fetch_add of GenerateUniqueTaskId and its return value
GenerateCounter(t) ==
  /\ pc[t] = "gen_counter"
  /\ task_id' = [task_id EXCEPT ![t] = MakeId(timestamp[t], global_counter)]
  /\ issued' = issued \cup { MakeId(timestamp[t], global_counter) }
  /\ returned' = returned + 1
  /\ increments' = increments \cup
                     { [counter |-> global_counter, ts |-> timestamp[t],
                        at |-> Truncate(clock),
                        id |-> MakeId(timestamp[t], global_counter)] }
  /\ global_counter' = FetchAdd(global_counter)
  /\ timestamp' = [timestamp EXCEPT ![t] = 0]
  /\ pc' = [pc EXCEPT ![t] = "init_read"]
  /\ UNCHANGED << configVars, arenaVars, arenas_mutex_, contexts_mutex_,
                  thread_contexts_, clock, call, arena, outcome, calls,
                  engineVars, observed >>

\* ------------------------------------------------------------------- Init
\* a once-flag that lets every call run the callable
CallOnceAlwaysRuns == TRUE

\* std::call_once(flag, ...): the callable runs unless a run of it has returned
CallOnceRuns == ~flag

\* what GetTBBParallelCountDefines() gives in the current state: the cached
\* map once the std::call_once has completed, else the result of
\* InitTBBParallelCountDefines (ok = FALSE: it throws and the flag stays unset)
GetTBBParallelCountDefines ==
  IF CallOnceRuns
  THEN InitTBBParallelCountDefines(FLAGS_custom_tbb_parallel_control)
  ELSE [ok |-> TRUE, map |-> tbb_parallel_count_defines]

\* the runs of InitTBBParallelCountDefines after this call of
\* GetTBBParallelCountDefines
Resolved == IF CallOnceRuns THEN resolutions + 1 ELSE resolutions

\* it != task_arenas_.end() && it->second.initialized, under the first lock
FirstCheckHit(name) ==
  name \in DOMAIN task_arenas_ /\ task_arenas_[name].initialized

\* Init without its second check: whoever missed the first lookup constructs
SecondCheckSkipped(name) == FALSE

\* the same test again, under the second lock
SecondCheckHit(name) ==
  name \in DOMAIN task_arenas_ /\ task_arenas_[name].initialized

\* a thread_count that ignores the overrides
ThreadCountIgnoresOverride(name, defines) == DefaultConcurrency

\* thread_count: the override of the name, else the engine's default
ThreadCount(name, defines) ==
  IF name \in DOMAIN defines THEN defines[name] ELSE DefaultConcurrency

\* tbb::blocked_range<IntType>(start, end) handed to tbb::parallel_for: an
\* empty range runs no callback
InitialRanges(start, end) == IF start < end THEN { << start, end >> } ELSE {}

\* Init returns handle h to thread t; inside ParallelFor the range is then
\* submitted to the arena (arena->execute, tbb::parallel_for)
InitReturns(t, h) ==
  /\ arena' = [arena EXCEPT ![t] = h]
  /\ IF call[t].op = "Init"
     THEN /\ pc' = [pc EXCEPT ![t] = "idle"]
          /\ outcome' = [outcome EXCEPT ![t] = "ok"]
          /\ call' = [call EXCEPT ![t] = NoCall]
          /\ UNCHANGED ranges
     ELSE /\ pc' = [pc EXCEPT ![t] = "wait"]
          /\ ranges' = [ranges EXCEPT
                          ![t] = InitialRanges(call[t].start, call[t].end)]
          /\ UNCHANGED << outcome, call >>
  /\ UNCHANGED task_id

\* an Init that inserts the entry of the name before it resolves the counts
EntryLeftOnThrow(name) ==
  MapPut(task_arenas_, name, [arena |-> 0, initialized |-> FALSE])

\* task_arenas_ when GetTBBParallelCountDefines throws: Init has not reached
\* task_arenas_[tbb_name] yet
ArenasOnThrow(name) == task_arenas_

\* std::stoi throws out of Init (and out of the ParallelFor that called it)
InitThrows(t) ==
  /\ pc' = [pc EXCEPT ![t] = "idle"]
  /\ outcome' = [outcome EXCEPT ![t] = "error"]
  /\ call' = [call EXCEPT ![t] = NoCall]
  /\ task_id' = [task_id EXCEPT ![t] = 0]
  /\ UNCHANGED << arena, ranges >>

\* a thread calls Init(tbb_name)
CallInit(t, name) ==
  /\ pc[t] = "idle"
  /\ calls' = calls + 1
  /\ pc' = [pc EXCEPT ![t] = "init_read"]
  /\ call' = [call EXCEPT ![t] = [op |-> "Init", tbb_name |-> name,
                                  start |-> 0, end |-> 0]]
  /\ outcome' = [outcome EXCEPT ![t] = "none"]
  /\ arena' = [arena EXCEPT ![t] = 0]
  /\ UNCHANGED << configVars, arenaVars, arenas_mutex_, contexts_mutex_,
                  thread_contexts_, idVars, timestamp, task_id, engineVars,
                  observed >>

\* std::lock_guard read_lock(arenas_mutex_)
InitReadLock(t) ==
  /\ pc[t] = "init_read"
  /\ arenas_mutex_ = 0
  /\ arenas_mutex_' = t
  /\ pc' = [pc EXCEPT ![t] = "init_first"]
  /\ UNCHANGED << configVars, arenaVars, contexts_mutex_, thread_contexts_,
                  idVars, call, timestamp, task_id, arena, outcome, calls,
                  engineVars, observed >>

\* the first lookup, and the end of its block (read_lock is released)
InitFirstCheck(t) ==
  /\ pc[t] = "init_first"
  /\ arenas_mutex_' = 0
  /\ IF FirstCheckHit(call[t].tbb_name)
     THEN InitReturns(t, task_arenas_[call[t].tbb_name].arena)
     ELSE /\ pc' = [pc EXCEPT ![t] = "init_write"]
          /\ UNCHANGED << arena, outcome, ranges, call, task_id >>
  /\ UNCHANGED << configVars, arenaVars, contexts_mutex_, thread_contexts_,
                  idVars, timestamp, calls, callbacks, failed, observed >>

\* std::lock_guard write_lock(arenas_mutex_)
InitWriteLock(t) ==
  /\ pc[t] = "init_write"
  /\ arenas_mutex_ = 0
  /\ arenas_mutex_' = t
  /\ pc' = [pc EXCEPT ![t] = "init_second"]
  /\ UNCHANGED << configVars, arenaVars, contexts_mutex_, thread_contexts_,
                  idVars, call, timestamp, task_id, arena, outcome, calls,
                  engineVars, observed >>

\* the second lookup and, on a miss, GetTBBParallelCountDefines (std::call_once
\* leaves the flag unset when the callable throws), the construction of the
\* arena and its insertion; write_lock is released on return and on throw
InitSecondCheck(t) ==
  LET name == call[t].tbb_name
      defines == GetTBBParallelCountDefines
  IN
  /\ pc[t] = "init_second"
  /\ arenas_mutex_' = 0
  /\ IF SecondCheckHit(name)
     THEN /\ InitReturns(t, task_arenas_[name].arena)
          /\ UNCHANGED << configVars, arenaVars >>
     ELSE IF ~defines.ok
     THEN /\ InitThrows(t)
          /\ resolutions' = Resolved
          /\ task_arenas_' = ArenasOnThrow(name)
          /\ UNCHANGED << FLAGS_custom_tbb_parallel_control, flag,
                          tbb_parallel_count_defines, arena_objs >>
     ELSE /\ flag' = TRUE
          /\ tbb_parallel_count_defines' = defines.map
          /\ resolutions' = Resolved
          /\ arena_objs' = Append(arena_objs,
                                  [name |-> name,
                                   concurrency |->
                                     ThreadCount(name, defines.map)])
          /\ task_arenas_' = MapPut(task_arenas_, name,
                                    [arena |-> Len(arena_objs) + 1,
                                     initialized |-> TRUE])
          /\ InitReturns(t, Len(arena_objs) + 1)
          /\ UNCHANGED FLAGS_custom_tbb_parallel_control
  /\ UNCHANGED << contexts_mutex_, thread_contexts_, idVars, timestamp,
                  calls, callbacks, failed, observed >>

\* ------------------------------------------------------------ ParallelFor
\* static_cast<int>(i)
StaticCastInt(i) == ((i + IntMod \div 2) % IntMod) - IntMod \div 2

\* the first field of the context of element i: static_cast<int>(i) in the
\* integer form of ParallelFor, the literal 0 in the blocked_range form
ContextIndex(op, i) == IF op = "ParallelForRange" THEN 0 ELSE StaticCastInt(i)

\* ThreadContext context{static_cast<int>(i), tbb_name, task_id}, and
\* ThreadContext context{0, tbb_name, task_id} of the blocked_range form
Context(t, i) ==
  [thread_id |-> ContextIndex(call[t].op, i), task_name |-> call[t].tbb_name,
   task_instance_id |-> task_id[t]]

\* the local_contexts after task(i) has returned
PushBack(local_contexts, context) == Append(local_contexts, context)

\* a flush that assigns the queue instead of pushing to it
PushOverwrites(queue, ctx) == << ctx >>

\* queue.push(std::move(ctx))
Push(queue, ctx) == Append(queue, ctx)

\* thread_contexts_[unique_task_name], created empty when absent
QueueOf(key) ==
  IF key \in DOMAIN thread_contexts_ THEN thread_contexts_[key] ELSE <<>>

\* the sub-range callbacks executing in arena a, over all dispatches
ArenaLoad(a) ==
  Cardinality({ c \in UNION { {<< t, cb.begin >> : cb \in callbacks[t]} :
                              t \in {u \in Threads : arena[u] = a} } : TRUE })

\* the engine runs a callback in an arena only within its concurrency
ArenaHasSlot(a) == ArenaLoad(a) < arena_objs[a].concurrency

\* the ranges callers pass: [1, 1) is empty, the longest is [1, MaxEnd)
Ranges == { << 1, e >> : e \in 1 .. MaxEnd }

\* a thread calls ParallelFor(tbb_name, start, end, task); its first effect is
\* the clock read of GenerateUniqueTaskId
CallParallelFor(t, name, r, now) ==
  /\ pc[t] = "idle"
  /\ ReadClock(t, now)
  /\ calls' = calls + 1
  /\ pc' = [pc EXCEPT ![t] = "gen_counter"]
  /\ call' = [call EXCEPT ![t] = [op |-> "ParallelFor", tbb_name |-> name,
                                  start |-> r[1], end |-> r[2]]]
  /\ outcome' = [outcome EXCEPT ![t] = "none"]
  /\ arena' = [arena EXCEPT ![t] = 0]
  /\ UNCHANGED << configVars, arenaVars, arenas_mutex_, contexts_mutex_,
                  thread_contexts_, global_counter, issued, returned, increments,
                  task_id, engineVars, observed >>

\* a thread calls the blocked_range form, ParallelFor(tbb_name, range, task),
\* which differs from the integer form in the context it records
CallParallelForRange(t, name, r, now) ==
  /\ pc[t] = "idle"
  /\ ReadClock(t, now)
  /\ calls' = calls + 1
  /\ pc' = [pc EXCEPT ![t] = "gen_counter"]
  /\ call' = [call EXCEPT ![t] = [op |-> "ParallelForRange", tbb_name |-> name,
                                  start |-> r[1], end |-> r[2]]]
  /\ outcome' = [outcome EXCEPT ![t] = "none"]
  /\ arena' = [arena EXCEPT ![t] = 0]
  /\ UNCHANGED << configVars, arenaVars, arenas_mutex_, contexts_mutex_,
                  thread_contexts_, global_counter, issued, returned, increments,
                  task_id, engineVars, observed >>

\* the engine splits a sub-range it has not started (any split point)
Split(t, r, m) ==
  /\ r \in ranges[t]
  /\ r[1] < m /\ m < r[2]
  /\ ranges' = [ranges EXCEPT
                  ![t] = (@ \ {r}) \cup { << r[1], m >>, << m, r[2] >> }]
  /\ UNCHANGED << configVars, arenaVars, arenas_mutex_, contexts_mutex_,
                  thread_contexts_, idVars, callVars, callbacks, failed,
                  observed >>

\* the engine invokes the callback on a sub-range: local_contexts is created
\* and task(range.begin()) is entered
StartSubRange(t, r) ==
  /\ pc[t] = "wait"
  /\ r \in ranges[t]
  /\ ~failed[t]
  /\ ArenaHasSlot(arena[t])
  /\ ranges' = [ranges EXCEPT ![t] = @ \ {r}]
  /\ callbacks' = [callbacks EXCEPT
                     ![t] = @ \cup { [begin |-> r[1], end |-> r[2],
                                      i |-> r[1], local_contexts |-> <<>>,
                                      at |-> "task", pushed |-> 0] }]
  /\ subranges' = [subranges EXCEPT ![t] = @ + 1]
  /\ UNCHANGED << configVars, arenaVars, arenas_mutex_, contexts_mutex_,
                  thread_contexts_, idVars, callVars, failed, released,
                  raised, executed, acquisitions, completed, lost >>

\* a loop that leaves for the flush after its first element
LoopStopsAfterFirst(cb) == FALSE

\* i < range.end() after ++i: the for loop of the callback goes on
LoopContinues(cb) == cb.i + 1 < cb.end

\* task(i) returns: the context is pushed to local_contexts, and the loop
\* enters task(i + 1) or ends (the sub-range is never empty, so neither is
\* local_contexts, and the callback goes on to lock contexts_mutex_)
TaskReturns(t, cb) ==
  /\ cb \in callbacks[t]
  /\ cb.at = "task"
  /\ LET pushed == PushBack(cb.local_contexts, Context(t, cb.i))
         next == IF LoopContinues(cb)
                 THEN [cb EXCEPT !.i = cb.i + 1, !.local_contexts = pushed]
                 ELSE [cb EXCEPT !.i = cb.i + 1, !.local_contexts = pushed,
                                 !.at = "lock"]
     IN callbacks' = [callbacks EXCEPT ![t] = (@ \ {cb}) \cup {next}]
  /\ executed' = [executed EXCEPT ![t] = @ \cup {cb.i}]
  /\ completed' = IF LoopContinues(cb) THEN completed
                  ELSE [completed EXCEPT ![t] = @ \cup {<< cb.begin, cb.end >>}]
  /\ UNCHANGED << configVars, arenaVars, arenas_mutex_, contexts_mutex_,
                  thread_contexts_, idVars, callVars, ranges, failed,
                  released, raised, acquisitions, subranges, lost >>

\* a callback that flushes what it has buffered when the body throws
UnwoundFlushes(cb) ==
  IF cb.local_contexts = <<>> THEN {} ELSE {[cb EXCEPT !.at = "lock"]}

\* what is left of a callback out of which task(i) threw: nothing, the
\* exception leaves the lambda and local_contexts is destroyed
Unwound(cb) == {}

\* task(i) throws: the callback unwinds (its local_contexts are destroyed) and
\* the engine cancels the sub-ranges it has not started
TaskThrows(t, cb) ==
  /\ cb \in callbacks[t]
  /\ cb.at = "task"
  /\ callbacks' = [callbacks EXCEPT ![t] = (@ \ {cb}) \cup Unwound(cb)]
  /\ ranges' = [ranges EXCEPT ![t] = {}]
  /\ failed' = [failed EXCEPT ![t] = TRUE]
  /\ raised' = [raised EXCEPT ![t] = @ \cup {cb.i}]
  /\ lost' = [lost EXCEPT ![t] = @ \cup (cb.begin .. cb.i - 1)]
  /\ UNCHANGED << configVars, arenaVars, arenas_mutex_, contexts_mutex_,
                  thread_contexts_, idVars, callVars, released, executed,
                  acquisitions, subranges, completed >>

\* a lock_guard that does not wait for the holder of the mutex
CanLockAlways(mutex) == TRUE

\* std::lock_guard's constructor returns only when no one holds the mutex
CanLock(mutex) == mutex = <<>>

\* std::lock_guard lock(contexts_mutex_) of a callback
ContextsLock(t, cb) ==
  /\ cb \in callbacks[t]
  /\ cb.at = "lock"
  /\ CanLock(contexts_mutex_)
  /\ contexts_mutex_' = << t, cb.begin >>
  /\ callbacks' = [callbacks EXCEPT
                     ![t] = (@ \ {cb}) \cup {[cb EXCEPT !.at = "push"]}]
  /\ acquisitions' = [acquisitions EXCEPT ![t] = @ + 1]
  /\ UNCHANGED << configVars, arenaVars, arenas_mutex_, thread_contexts_,
                  idVars, callVars, ranges, failed, released, raised,
                  executed, subranges, completed, lost >>

\* one iteration of the flush loop: the callback pushes its next local
\* context to the queue of unique_task_name; after the last one it releases
\* contexts_mutex_ and returns to the engine
Flush(t, cb) ==
  LET key == UniqueTaskName(call[t].tbb_name, task_id[t]) IN
  /\ cb \in callbacks[t]
  /\ cb.at = "push"
  /\ thread_contexts_' = MapPut(thread_contexts_, key,
                                Push(QueueOf(key),
                                     cb.local_contexts[cb.pushed + 1]))
  /\ IF cb.pushed + 1 < Len(cb.local_contexts)
     THEN /\ callbacks' = [callbacks EXCEPT
                             ![t] = (@ \ {cb}) \cup
                                    {[cb EXCEPT !.pushed = cb.pushed + 1]}]
          /\ UNCHANGED contexts_mutex_
     ELSE /\ callbacks' = [callbacks EXCEPT ![t] = @ \ {cb}]
          /\ contexts_mutex_' = <<>>
  /\ UNCHANGED << configVars, arenaVars, arenas_mutex_, idVars, callVars,
                  ranges, failed, observed >>

\* a dispatch that swallows the body's exception
DispatchOutcomeSwallows(hasFailed) == "ok"

\* how arena->execute ends once the engine has run or cancelled every
\* sub-range: it rethrows when a body threw
DispatchOutcome(hasFailed) == IF hasFailed THEN "error" ELSE "ok"

\* a dispatch that does not wait for the engine (fire and forget)
DispatchNeverWaits(t) == TRUE

\* arena->execute blocks until the engine has run or cancelled every
\* sub-range of the tbb::parallel_for
DispatchDone(t) == ranges[t] = {} /\ callbacks[t] = {}

\* arena->execute returns (or rethrows) and so does ParallelFor
ParallelForReturns(t) ==
  /\ pc[t] = "wait"
  /\ DispatchDone(t)
  /\ pc' = [pc EXCEPT ![t] = "idle"]
  /\ outcome' = [outcome EXCEPT ![t] = DispatchOutcome(failed[t])]
  /\ call' = [call EXCEPT ![t] = NoCall]
  /\ task_id' = [task_id EXCEPT ![t] = 0]
  /\ arena' = [arena EXCEPT ![t] = 0]
  /\ failed' = [failed EXCEPT ![t] = FALSE]
  /\ raised' = [raised EXCEPT ![t] = {}]
  /\ executed' = [executed EXCEPT ![t] = {}]
  /\ acquisitions' = [acquisitions EXCEPT ![t] = 0]
  /\ subranges' = [subranges EXCEPT ![t] = 0]
  /\ completed' = [completed EXCEPT ![t] = {}]
  /\ lost' = [lost EXCEPT ![t] = {}]
  /\ UNCHANGED << configVars, arenaVars, arenas_mutex_, contexts_mutex_,
                  thread_contexts_, idVars, timestamp, calls, ranges,
                  callbacks, released >>

\* -------------------------------------------------------- arena lifetime
\* a caller that keeps no shared_ptr of its own (a reference into the map)
NoLocalRef(t) == 0

\* the arena the shared_ptr held by thread t owns: the local `arena` of
\* ParallelFor, or the handle Init returned to its caller (0: none)
LocalRef(t) == arena[t]

\* the arenas the shared_ptrs in task_arenas_ own
MapRefs == { task_arenas_[name].arena : name \in DOMAIN task_arenas_ }

\* a tbb::task_arena is destroyed when the last shared_ptr that owns it goes
Destroyed(a) ==
  /\ a \in 1 .. Len(arena_objs)
  /\ a \notin MapRefs
  /\ \A t \in Threads : LocalRef(t) # a

\* ---------------------------------------------------------------- Release
\* a Release that locks contexts_mutex_ first
ReleaseOrderSwapped == << "contexts", "arenas" >>

\* the order in which Release locks: arenas_lock, then contexts_lock
ReleaseOrder == << "arenas", "contexts" >>

\* thread t locks one of the two mutexes
LockMutex(t, which) ==
  IF which = "arenas"
  THEN /\ arenas_mutex_ = 0
       /\ arenas_mutex_' = t
       /\ UNCHANGED contexts_mutex_
  ELSE /\ contexts_mutex_ = <<>>
       /\ contexts_mutex_' = << t >>
       /\ UNCHANGED arenas_mutex_

\* a thread calls Release()
CallRelease(t) ==
  /\ pc[t] = "idle"
  /\ calls' = calls + 1
  /\ pc' = [pc EXCEPT ![t] = "release_first"]
  /\ call' = [call EXCEPT ![t] = [op |-> "Release", tbb_name |-> <<>>,
                                  start |-> 0, end |-> 0]]
  /\ outcome' = [outcome EXCEPT ![t] = "none"]
  /\ arena' = [arena EXCEPT ![t] = 0]
  /\ UNCHANGED << configVars, arenaVars, arenas_mutex_, contexts_mutex_,
                  thread_contexts_, idVars, timestamp, task_id, engineVars,
                  observed >>

\* the first lock_guard of Release
ReleaseFirstLock(t) ==
  /\ pc[t] = "release_first"
  /\ LockMutex(t, ReleaseOrder[1])
  /\ pc' = [pc EXCEPT ![t] = "release_second"]
  /\ UNCHANGED << configVars, arenaVars, thread_contexts_, idVars, call,
                  timestamp, task_id, arena, outcome, calls, engineVars,
                  observed >>

\* the second lock_guard of Release
ReleaseSecondLock(t) ==
  /\ pc[t] = "release_second"
  /\ LockMutex(t, ReleaseOrder[2])
  /\ pc' = [pc EXCEPT ![t] = "release_clear"]
  /\ UNCHANGED << configVars, arenaVars, thread_contexts_, idVars, call,
                  timestamp, task_id, arena, outcome, calls, engineVars,
                  observed >>

\* a Release that leaves task_arenas_ as it is
KeptArenas == task_arenas_

\* task_arenas_.clear()
ClearedArenas == [n \in {} |-> 0]

\* thread_contexts_.clear()
ClearedContexts == [k \in {} |-> <<>>]

\* both maps are cleared and both lock_guards are destroyed
ReleaseClear(t) ==
  /\ pc[t] = "release_clear"
  /\ task_arenas_' = ClearedArenas
  /\ thread_contexts_' = ClearedContexts
  /\ arenas_mutex_' = 0
  /\ contexts_mutex_' = <<>>
  /\ released' = Len(arena_objs)
  /\ pc' = [pc EXCEPT ![t] = "idle"]
  /\ outcome' = [outcome EXCEPT ![t] = "ok"]
  /\ call' = [call EXCEPT ![t] = NoCall]
  /\ UNCHANGED << configVars, arena_objs, idVars, timestamp, task_id, arena,
                  calls, engineVars, raised, executed, acquisitions,
                  subranges, completed, lost >>

\* ----------------------------------------------------------- specification
\* the callers make at most MaxCalls calls in one run
MayCall == calls < MaxCalls

\* a caller thread begins a call, on one of the given arena names
CallsOn(names) ==
  \/ \E t \in Threads, name \in names : MayCall /\ CallInit(t, name)
  \/ \E t \in Threads, name \in names, r \in Ranges, now \in 0 .. MaxClock :
       MayCall /\ CallParallelFor(t, name, r, now)
  \/ \E t \in Threads : MayCall /\ CallRelease(t)

\* the call of thread t, or the engine on its behalf, takes a step
ThreadStep(t) ==
  \/ GenerateCounter(t)
  \/ InitReadLock(t)
  \/ InitFirstCheck(t)
  \/ InitWriteLock(t)
  \/ InitSecondCheck(t)
  \/ \E r \in ranges[t], m \in 1 .. MaxEnd : Split(t, r, m)
  \/ \E r \in ranges[t] : StartSubRange(t, r)
  \/ \E cb \in callbacks[t] : TaskReturns(t, cb)
  \/ \E cb \in callbacks[t] : TaskThrows(t, cb)
  \/ \E cb \in callbacks[t] : ContextsLock(t, cb)
  \/ \E cb \in callbacks[t] : Flush(t, cb)
  \/ ParallelForReturns(t)
  \/ ReleaseFirstLock(t)
  \/ ReleaseSecondLock(t)
  \/ ReleaseClear(t)

Step == \E t \in Threads : ThreadStep(t)

Next == CallsOn(Names) \/ Step

Spec == Init /\ [][Next]_vars

\* the items the flag texts of SpecCfg are made of: pairs, a repeated name, an
\* item without ':', a count that is no integer, the empty item, a count with
\* whitespace, a sign and a trailing letter, and an item with two ':'
ItemPool ==
  { << "a", ":", "2" >>, << "b", ":", "4" >>, << "b", "a", "d" >>,
    << "a", ":", "4" >>, << "b", ":", "x" >>, << >>,
    << "a", ":", " ", "-", "2", "x" >>, << "b", ":", "2", ":", "4" >> }

\* the items joined by ','
RECURSIVE Join(_)
Join(items) ==
  IF items = << >> THEN << >>
  ELSE IF Len(items) = 1 THEN items[1]
  ELSE items[1] \o << "," >> \o Join(Tail(items))

\* the flag texts of up to MaxItems items
FlagTexts ==
  { Join(items) : items \in UNION { [1 .. n -> ItemPool] : n \in 0 .. MaxItems } }

\* a thread calls the public GetTBBParallelCountDefines(): std::call_once runs
\* InitTBBParallelCountDefines unless an earlier call completed it, and the
\* call returns the cached map or throws what std::stoi threw
CallGetDefines(t) ==
  /\ pc[t] = "idle"
  /\ calls' = calls + 1
  /\ resolutions' = Resolved
  /\ IF GetTBBParallelCountDefines.ok
     THEN /\ flag' = TRUE
          /\ tbb_parallel_count_defines' = GetTBBParallelCountDefines.map
          /\ outcome' = [outcome EXCEPT ![t] = "ok"]
     ELSE /\ outcome' = [outcome EXCEPT ![t] = "error"]
          /\ UNCHANGED << flag, tbb_parallel_count_defines >>
  /\ UNCHANGED << FLAGS_custom_tbb_parallel_control, arenaVars, arenas_mutex_,
                  contexts_mutex_, thread_contexts_, idVars, pc, call,
                  timestamp, task_id, arena, engineVars, observed >>

\* the resolution of the flag text alone, for every flag text
InitCfg ==
  /\ FLAGS_custom_tbb_parallel_control \in FlagTexts
  /\ BaseInit

NextCfg == \E t \in Threads : MayCall /\ CallGetDefines(t)

SpecCfg == InitCfg /\ [][NextCfg]_vars

\* a thread that is idle, or has the id of its last call, calls
\* GenerateUniqueTaskId and reads the clock
CallGenerate(t, now) ==
  /\ pc[t] \in {"idle", "init_read"}
  /\ calls < MaxIdCalls
  /\ now <= MaxIdClock
  /\ calls' = calls + 1
  /\ ReadClock(t, now)
  /\ pc' = [pc EXCEPT ![t] = "gen_counter"]
  /\ UNCHANGED << configVars, arenaVars, arenas_mutex_, contexts_mutex_,
                  thread_contexts_, global_counter, issued, returned,
                  increments, call, task_id, arena, outcome, engineVars,
                  observed >>

\* the id generator alone, called from every thread
InitId ==
  /\ FLAGS_custom_tbb_parallel_control = << >>
  /\ BaseInit

NextId ==
  \/ \E t \in Threads, now \in 0 .. MaxIdClock : CallGenerate(t, now)
  \/ \E t \in Threads : GenerateCounter(t)

SpecId == InitId /\ [][NextId]_vars

\* the flag texts FairSpec starts from: an override for "x", and no override
FairConfigTexts == { << "x", ":", "1" >>, << >> }

InitFair ==
  /\ FLAGS_custom_tbb_parallel_control \in FairConfigTexts
  /\ BaseInit

\* the calls are all on arena "x"
NextFair == CallsOn({ << "x" >> }) \/ Step

\* threads and engine workers are scheduled fairly, and every body terminates
\* (returns or throws)
FairSpec ==
  InitFair /\ [][NextFair]_vars /\ \A t \in Threads : WF_vars(ThreadStep(t))

\* the flag texts SpecArena starts from: overrides of 0, of a negative count
\* and of a positive count, and no override
ArenaConfigTexts ==
  { << "x", ":", "0" >>, << "x", ":", "-", "2" >>, << "x", ":", "2" >>, << >> }

InitArena ==
  /\ FLAGS_custom_tbb_parallel_control \in ArenaConfigTexts
  /\ BaseInit

\* a step of a call of Init or Release by thread t
RegistryStep(t) ==
  \/ InitReadLock(t)
  \/ InitFirstCheck(t)
  \/ InitWriteLock(t)
  \/ InitSecondCheck(t)
  \/ ReleaseFirstLock(t)
  \/ ReleaseSecondLock(t)
  \/ ReleaseClear(t)

NextArena ==
  \/ \E t \in Threads, name \in Names : MayCall /\ CallInit(t, name)
  \/ \E t \in Threads : MayCall /\ CallRelease(t)
  \/ \E t \in Threads : RegistryStep(t)

\* the arena registry alone: Init and Release called from every thread
SpecArena == InitArena /\ [][NextArena]_vars

\* both forms of ParallelFor, and Release, called on arena "x"
NextRange ==
  \/ \E t \in Threads, r \in Ranges, now \in 0 .. MaxClock :
       \/ MayCall /\ CallParallelFor(t, << "x" >>, r, now)
       \/ MayCall /\ CallParallelForRange(t, << "x" >>, r, now)
  \/ \E t \in Threads : MayCall /\ CallRelease(t)
  \/ Step

SpecRange == InitFair /\ [][NextRange]_vars

\* the range SpecFlush dispatches: long enough for two sub-ranges of two
\* elements
FlushRange == << 0, MaxEnd + 1 >>

\* thread 1 dispatches FlushRange on arena "x", once; thread 2 calls Release
NextFlush ==
  \/ \E now \in 0 .. MaxClock :
       returned = 0 /\ CallParallelFor(1, << "x" >>, FlushRange, now)
  \/ MayCall /\ CallRelease(2)
  \/ Step

SpecFlush == InitFair /\ [][NextFlush]_vars

\* the range SpecKeys dispatches: one element
KeyRange == << 1, 2 >>

\* a step of a dispatch of thread t on a range the engine does not split
DispatchStep(t) ==
  \/ GenerateCounter(t)
  \/ InitReadLock(t)
  \/ InitFirstCheck(t)
  \/ InitWriteLock(t)
  \/ InitSecondCheck(t)
  \/ \E r \in ranges[t] : StartSubRange(t, r)
  \/ \E cb \in callbacks[t] : TaskReturns(t, cb)
  \/ \E cb \in callbacks[t] : TaskThrows(t, cb)
  \/ \E cb \in callbacks[t] : ContextsLock(t, cb)
  \/ \E cb \in callbacks[t] : Flush(t, cb)
  \/ ParallelForReturns(t)

\* one call more than the counter has values, each a ParallelFor on KeyRange
NextKeys ==
  \/ \E t \in Threads, name \in Names, now \in 0 .. MaxClock :
       calls < CounterMod + 1 /\ CallParallelFor(t, name, KeyRange, now)
  \/ \E t \in Threads : DispatchStep(t)

\* enough dispatches for the counter of the id generator to wrap
SpecKeys == InitId /\ [][NextKeys]_vars

\* ------------------------------------------------------------------ claims
\* the arenas of a name constructed since Release last cleared the maps
ArenasSince(name) ==
  { a \in released + 1 .. Len(arena_objs) : arena_objs[a].name = name }

\* the queue key of the dispatch of thread t
KeyOf(t) == UniqueTaskName(call[t].tbb_name, task_id[t])

\* the elements of the range of the dispatch of thread t
FullRange(t) == call[t].start .. call[t].end - 1

\* the indices recorded in a queue
Indices(queue) == { queue[k].thread_id : k \in 1 .. Len(queue) }

\* the dispatch of thread t is about to return from ParallelFor
AboutToReturn(t) == pc[t] = "wait" /\ DispatchDone(t)

\* C1: between two Releases the arena of a name is constructed at most once,
\* the map entry of the name is that arena, initialized, and every handle Init
\* has returned for the name since the last Release is that same arena.
C1_InitOnce ==
  \A name \in Names :
    /\ Cardinality(ArenasSince(name)) <= 1
    /\ name \in DOMAIN task_arenas_ =>
         /\ task_arenas_[name].initialized
         /\ task_arenas_[name].arena \in ArenasSince(name)
    /\ \A t \in Threads :
         (arena[t] > released /\ arena_objs[arena[t]].name = name) =>
           /\ name \in DOMAIN task_arenas_
           /\ task_arenas_[name].arena = arena[t]

\* C1 witness: one thread holds the handle of a name it constructed while
\* another thread, which missed the first lookup of the same name, is in the
\* second check.
C1_Witness ==
  \E t1, t2 \in Threads :
    /\ t1 # t2
    /\ arena[t1] > released
    /\ pc[t2] = "init_second"
    /\ call[t2].tbb_name = arena_objs[arena[t1]].name

RecordsOf(t, i) ==
  { << key, k >> \in UNION { {key} \X (1 .. Len(thread_contexts_[key])) :
                             key \in DOMAIN thread_contexts_ } :
      thread_contexts_[key][k] = Context(t, i) }

\* C3: a ParallelFor in which a body raised ends with the error at its caller;
\* the record of an element whose body raised is in no queue; the queue of the
\* task instance holds at most N - 1 records once a body has raised.
C3_FailurePropagates ==
  [][ \A t \in Threads :
        /\ (pc[t] = "wait" /\ pc'[t] = "idle" /\ failed[t]) =>
             outcome'[t] = "error"
        /\ (pc[t] = "wait" /\ pc'[t] = "idle" /\ ~failed[t]) =>
             outcome'[t] = "ok"
        /\ \A i \in raised[t] : RecordsOf(t, i) = {}
        /\ (pc[t] = "wait" /\ failed[t]) =>
             Len(QueueOf(KeyOf(t))) <= call[t].end - call[t].start - 1 ]_vars

\* C3 witness: a body raised on one element of a two-element range, the
\* sibling sub-range flushed its record, and the dispatch is about to return.
C3_Witness ==
  \E t \in Threads :
    /\ AboutToReturn(t) /\ failed[t]
    /\ call[t].end - call[t].start = 2
    /\ raised[t] # {}
    /\ Len(QueueOf(KeyOf(t))) = 1

\* the concurrency configured for a name: its override in the flag text, the
\* engine default when it has none
ConfiguredBudget(name) ==
  LET overrides == InitTBBParallelCountDefines(
                     FLAGS_custom_tbb_parallel_control).map
  IN IF name \in DOMAIN overrides THEN overrides[name] ELSE DefaultConcurrency

\* the body invocations executing for the dispatches in a set of threads
Executing(ts) ==
  UNION { { << t, cb.begin >> : cb \in { c \in callbacks[t] : c.at = "task" } } :
          t \in ts }

\* the dispatches in flight under a name
DispatchesOf(name) ==
  { t \in Threads : pc[t] = "wait" /\ call[t].tbb_name = name }

\* C5 as stated: every arena has the concurrency configured for its name, and
\* the body invocations dispatched under a name never outnumber that budget.
C5_Original ==
  /\ \A a \in 1 .. Len(arena_objs) :
       arena_objs[a].concurrency = ConfiguredBudget(arena_objs[a].name)
  /\ \A name \in Names :
       Cardinality(Executing(DispatchesOf(name))) <= ConfiguredBudget(name)

\* C5 amended: every arena has the concurrency configured for its name; the
\* body invocations executing in one arena never outnumber its concurrency,
\* also when several dispatches share it; and the bound holds per name as long
\* as no Release ran since a dispatch in flight under the name got its arena.
C5_BudgetPerArena ==
  /\ \A a \in 1 .. Len(arena_objs) :
       /\ arena_objs[a].concurrency = ConfiguredBudget(arena_objs[a].name)
       /\ Cardinality(Executing({ t \in Threads : pc[t] = "wait" /\ arena[t] = a }))
            <= arena_objs[a].concurrency
  /\ \A name \in Names :
       (\A t \in DispatchesOf(name) : arena[t] > released) =>
         Cardinality(Executing(DispatchesOf(name))) <= ConfiguredBudget(name)

\* C5 witness: two dispatches share an arena of concurrency 1; one executes a
\* body while a sub-range of the other waits for the arena.
C5_Witness ==
  \E t1, t2 \in Threads :
    /\ t1 # t2
    /\ pc[t1] = "wait" /\ pc[t2] = "wait"
    /\ arena[t1] = arena[t2]
    /\ arena_objs[arena[t1]].concurrency = 1
    /\ Executing({t1}) # {}
    /\ ranges[t2] # {}

\* C6: when Release completes both maps are empty; afterwards every entry of
\* the arena map, and every handle Init returns, is an arena constructed after
\* that Release (so the construction count has grown and the handle differs
\* from every earlier one).
C6_ReleaseClears ==
  [][ /\ \A t \in Threads :
           /\ (pc[t] = "release_clear" /\ pc'[t] = "idle") =>
                /\ DOMAIN task_arenas_' = {}
                /\ DOMAIN thread_contexts_' = {}
                /\ released' = Len(arena_objs)
           /\ (arena[t] = 0 /\ arena'[t] # 0) =>
                /\ arena'[t] > released'
                /\ arena'[t] <= Len(arena_objs')
      /\ \A name \in DOMAIN task_arenas_' :
           task_arenas_'[name].arena > released' ]_vars

\* C6 witness: after a Release that removed the arena of a name, Init has
\* returned another arena of the same name.
C6_Witness ==
  \E t \in Threads, old \in 1 .. released :
    /\ arena[t] > released
    /\ arena_objs[arena[t]].name = arena_objs[old].name

\* the callbacks of the dispatch of thread t that are at or past the lock
AtFlush(t) == { cb \in callbacks[t] : cb.at \in {"lock", "push"} }

\* where in a callback contexts_mutex_ is taken: after the last element of the
\* sub-range, with every element's context buffered, and never inside the loop
LockedAfterLoop(t) ==
  /\ \A cb \in AtFlush(t) :
       cb.i = cb.end /\ Len(cb.local_contexts) = cb.end - cb.begin
  /\ \A cb \in callbacks[t] \ AtFlush(t) : contexts_mutex_ # << t, cb.begin >>

\* C9 as stated: contexts_mutex_ is taken after a sub-range's last element,
\* never per element, and when the call ends the acquisitions equal the
\* sub-ranges the engine assigned.
C9_Original ==
  \A t \in Threads :
    /\ LockedAfterLoop(t)
    /\ AboutToReturn(t) => acquisitions[t] = subranges[t]

\* C9 amended: contexts_mutex_ is taken after a sub-range's last element,
\* never per element, exactly once per sub-range whose body raised on no
\* element and not at all for a sub-range whose body raised: when the call
\* ends, the acquisitions are the sub-ranges minus those that raised.
C9_OncePerCompletedSubRange ==
  \A t \in Threads :
    /\ LockedAfterLoop(t)
    /\ acquisitions[t] <= subranges[t]
    /\ AboutToReturn(t) =>
         acquisitions[t] = subranges[t] - Cardinality(raised[t])

\* C9 witness: a call about to return ran two elements as one sub-range and
\* took the lock once.
C9_Witness ==
  \E t \in Threads :
    /\ AboutToReturn(t)
    /\ Cardinality(executed[t]) = 2
    /\ subranges[t] = 1
    /\ acquisitions[t] = 1

\* C10: whenever a call is in progress some step of a call or of the engine is
\* possible; a thread holds both mutexes only at the end of Release, having
\* taken arenas_mutex_ first; contexts_mutex_ is otherwise held only by a
\* callback that is flushing; and no body runs in a callback that holds
\* contexts_mutex_ or for a caller that holds arenas_mutex_.
C10_NoDeadlock ==
  /\ (\E t \in Threads : pc[t] # "idle") => ENABLED Step
  /\ \A t \in Threads :
       /\ arenas_mutex_ = t =>
            pc[t] \in {"init_first", "init_second", "release_second",
                       "release_clear"}
       /\ pc[t] = "release_second" =>
            arenas_mutex_ = t /\ contexts_mutex_ # << t >>
       /\ contexts_mutex_ = << t >> =>
            pc[t] = "release_clear" /\ arenas_mutex_ = t
       /\ \A cb \in callbacks[t] :
            /\ contexts_mutex_ = << t, cb.begin >> <=> cb.at = "push"
            /\ cb.at = "task" => arenas_mutex_ # t

\* C10 witness: Release holds arenas_mutex_ and waits for contexts_mutex_,
\* which a flushing callback of another thread's dispatch holds.
C10_Witness ==
  \E t1, t2 \in Threads :
    /\ t1 # t2
    /\ pc[t2] = "release_second"
    /\ \E cb \in callbacks[t1] : contexts_mutex_ = << t1, cb.begin >>

\* thread t is inside ParallelFor
InParallelFor(t) == call[t].op = "ParallelFor" /\ pc[t] # "idle"

\* C8: ParallelFor returns only when the engine has neither a pending nor a
\* running sub-range of the dispatch, and it returns normally only when the
\* body has returned for every element of the range; no callback of a dispatch
\* runs outside its ParallelFor; and a ParallelFor in progress eventually
\* returns.
C8_Synchronous ==
  /\ [][ \A t \in Threads :
           /\ (pc[t] = "wait" /\ pc'[t] = "idle") =>
                /\ ranges[t] = {} /\ callbacks[t] = {}
                /\ outcome'[t] = "ok" => executed[t] = FullRange(t)
           /\ pc'[t] # "wait" => (ranges'[t] = {} /\ callbacks'[t] = {}) ]_vars
  /\ \A t \in Threads : InParallelFor(t) ~> (pc[t] = "idle")

\* C8 witness: a dispatch has flushed one sub-range and still waits for a
\* body of another to finish.
C8_Witness ==
  \E t \in Threads :
    /\ pc[t] = "wait"
    /\ QueueOf(KeyOf(t)) # <<>>
    /\ \E cb \in callbacks[t] : cb.at = "task"

\* C4 as stated: the ids GenerateUniqueTaskId has returned are pairwise
\* distinct, however many calls were made.
C4_Original == Cardinality(issued) = returned

\* C4 amended: the ids of N calls are pairwise distinct as long as N is at
\* most the number of values of the counter (no counter value is handed out
\* twice among them).
C4_DistinctUntilWrap ==
  returned <= CounterMod => Cardinality(issued) = returned

\* C4 witness: as many ids as the counter has values have been returned, two
\* of them with the same timestamp, while a thread that read the clock before
\* it advanced has not yet incremented the counter.
C4_Witness ==
  /\ returned >= 3
  /\ \E i, j \in issued : i # j /\ i \div CounterMod = j \div CounterMod
  /\ \E t \in Threads : pc[t] = "gen_counter" /\ timestamp[t] # Truncate(clock)

\* the comma-separated items of a text, each as << first, last >> positions
ItemSpans(text) ==
  { sp \in (1 .. Len(text) + 1) \X (0 .. Len(text)) :
      /\ sp[1] <= sp[2] + 1
      /\ sp[1] = 1 \/ text[sp[1] - 1] = ","
      /\ sp[2] = Len(text) \/ text[sp[2] + 1] = ","
      /\ \A p \in sp[1] .. sp[2] : text[p] # "," }

\* the items that contain the ':' separator
PairSpans(text) ==
  { sp \in ItemSpans(text) : \E p \in sp[1] .. sp[2] : text[p] = ":" }

\* the position of the first ':' of such an item
ColonOf(text, sp) ==
  CHOOSE p \in sp[1] .. sp[2] :
    text[p] = ":" /\ \A q \in sp[1] .. p - 1 : text[q] # ":"

\* its name and its count (as std::stoi reads it)
NameOf(text, sp) == SubSeq(text, sp[1], ColonOf(text, sp) - 1)
CountOf(text, sp) == Stoi(SubSeq(text, ColonOf(text, sp) + 1, sp[2]))

\* every item with a separator has a valid integer
CountsValid(text) == \A sp \in PairSpans(text) : CountOf(text, sp).ok

\* the pairs a map holds
PairsIn(map) == { << k, map[k] >> : k \in DOMAIN map }

\* C7 as stated: the mapping a resolution yields holds exactly the name->count
\* pairs of the items that have the separator and a valid integer.
C7_Original ==
  LET text == FLAGS_custom_tbb_parallel_control IN
  flag =>
    PairsIn(tbb_parallel_count_defines) =
      { << NameOf(text, sp), CountOf(text, sp).value >> :
          sp \in { q \in PairSpans(text) : CountOf(text, q).ok } }

\* C7 amended: a resolution yields a mapping when every item that has the
\* separator has a valid integer, and fails otherwise; the mapping holds the
\* names of those items, each with the count of the last item of that name;
\* items without the separator add nothing, and the empty text yields the
\* empty mapping.
C7_LastPairWins ==
  LET text == FLAGS_custom_tbb_parallel_control
      map == tbb_parallel_count_defines
  IN
  /\ \A t \in Threads :
       /\ outcome[t] = "ok" => (flag /\ CountsValid(text))
       /\ outcome[t] = "error" => (~flag /\ ~CountsValid(text))
  /\ flag =>
       /\ DOMAIN map = { NameOf(text, sp) : sp \in PairSpans(text) }
       /\ \A sp \in PairSpans(text) :
            (\A later \in PairSpans(text) :
               NameOf(text, later) = NameOf(text, sp) => later[1] <= sp[1])
            => map[NameOf(text, sp)] = CountOf(text, sp).value
       /\ text = << >> => map = EmptyMap

\* C7 witness: the text "a:2,bad,a:4" has been resolved.
C7_Witness ==
  /\ FLAGS_custom_tbb_parallel_control =
       << "a", ":", "2", ",", "b", "a", "d", ",", "a", ":", "4" >>
  /\ flag
  /\ \E t \in Threads : outcome[t] = "ok"

\* a thread is in a section that modifies the arena map: the slow path of Init
\* or Release
Writing(t) == pc[t] \in {"init_second", "release_second", "release_clear"}

\* C11 as stated: a thread that arrives at the first lookup of a name whose
\* arena is initialized, while no thread modifies the arena map, enters the
\* lookup without waiting, also when another thread is inside its own first
\* lookup.
C11_ReadersDoNotBlock ==
  \A t \in Threads :
    ( /\ pc[t] = "init_read"
      /\ FirstCheckHit(call[t].tbb_name)
      /\ \A u \in Threads : ~Writing(u) )
    => ENABLED InitReadLock(t)

\* C12 as stated: InitTBBParallelCountDefines runs at most one time, whether
\* or not a run fails.
C12_Original == resolutions <= 1

\* C12 amended: InitTBBParallelCountDefines returns at most one time: once a
\* run has returned, its mapping is cached, no later call runs it again and
\* every arena constructed afterwards takes its concurrency from the cached
\* mapping; a run that fails caches nothing, and every run so far has failed
\* as long as nothing is cached.
C12_ResolvedOnceOnSuccess ==
  /\ [][ flag =>
           /\ flag'
           /\ tbb_parallel_count_defines' = tbb_parallel_count_defines
           /\ resolutions' = resolutions
           /\ Len(arena_objs') > Len(arena_objs) =>
                arena_objs'[Len(arena_objs')].concurrency =
                  ThreadCount(arena_objs'[Len(arena_objs')].name,
                              tbb_parallel_count_defines) ]_vars
  /\ [](flag => resolutions = 1)
  /\ []((~flag /\ resolutions > 0) =>
          /\ ~CountsValid(FLAGS_custom_tbb_parallel_control)
          /\ tbb_parallel_count_defines = EmptyMap)

\* C12 witness: the mapping is cached after one run and a second arena has
\* been constructed from it.
C12_Witness ==
  /\ flag
  /\ resolutions = 1
  /\ Len(arena_objs) >= 2

\* C13 as stated: every entry of the arena map holds an arena whose
\* concurrency is at least 1, whatever counts the flag text gives.
C13_ConcurrencyAtLeastOne ==
  \A name \in DOMAIN task_arenas_ :
    arena_objs[task_arenas_[name].arena].concurrency >= 1

\* the record made for an element names the dispatch of thread t and carries
\* the element's index, or its position in the range of the dispatch
CarriesElement(t, record, element) ==
  /\ record.thread_id \in { element, element - call[t].start }
  /\ record.task_name = call[t].tbb_name
  /\ record.task_instance_id = task_id[t]

\* no two records of a sequence have the same index field
DistinctIndices(records) ==
  \A j, k \in 1 .. Len(records) :
    j # k => records[j].thread_id # records[k].thread_id

\* C14 as stated: in both forms of ParallelFor every record made for an
\* element carries the element's index or position, the arena name and the
\* task id of the dispatch, and the records of distinct elements of one task
\* instance have distinct index fields.
C14_IndexRecorded ==
  \A t \in Threads :
    pc[t] = "wait" =>
      /\ \A cb \in callbacks[t] :
           /\ \A k \in 1 .. Len(cb.local_contexts) :
                CarriesElement(t, cb.local_contexts[k], cb.begin + k - 1)
           /\ DistinctIndices(cb.local_contexts)
      /\ DistinctIndices(QueueOf(KeyOf(t)))

\* the last n records of a queue
LastOf(queue, n) == SubSeq(queue, Len(queue) - n + 1, Len(queue))

\* C15: the local buffer of a sub-range holds the records of its elements in
\* iteration order; while the sub-range flushes, the records it has pushed so
\* far are the last records of the queue, in that order (no record of another
\* sub-range, and no Release, comes between them); and when it has flushed,
\* the queue ends with its whole buffer.
C15_ContiguousBlock ==
  /\ [](\A t \in Threads : \A cb \in callbacks[t] :
          /\ \A k \in 1 .. Len(cb.local_contexts) :
               cb.local_contexts[k] = Context(t, cb.begin + k - 1)
          /\ cb.at = "push" =>
               /\ Len(QueueOf(KeyOf(t))) >= cb.pushed
               /\ LastOf(QueueOf(KeyOf(t)), cb.pushed) =
                    SubSeq(cb.local_contexts, 1, cb.pushed))
  /\ [][ \A t \in Threads : \A cb \in callbacks[t] :
           ( /\ cb.at = "push"
             /\ \A after \in callbacks'[t] : after.begin # cb.begin )
           => /\ Len(QueueOf(KeyOf(t))') >= Len(cb.local_contexts)
              /\ LastOf(QueueOf(KeyOf(t))', Len(cb.local_contexts)) =
                   cb.local_contexts ]_vars

\* C15 witness: a sub-range of two elements has pushed the first of its two
\* records while another sub-range of the dispatch, its buffer full, waits for
\* contexts_mutex_.
C15_Witness ==
  \E t \in Threads : \E cb, other \in callbacks[t] :
    /\ cb.at = "push" /\ cb.pushed = 1 /\ Len(cb.local_contexts) = 2
    /\ other.at = "lock" /\ Len(other.local_contexts) = 2

\* the elements of a set of sub-ranges
ElementsOf(subs) == UNION { sr[1] .. sr[2] - 1 : sr \in subs }

\* C16: every record in the queue of a dispatch is of an element of a
\* sub-range whose loop ran to its end, with the body returned for each of its
\* elements and raised for none; no record buffered by a sub-range whose body
\* raised, nor one of the element that raised, is in the queue; and the step in
\* which a body raises leaves every queue as it was.
C16_OnlyCompletedFlushed ==
  /\ [](\A t \in Threads :
          pc[t] = "wait" =>
            /\ Indices(QueueOf(KeyOf(t))) \subseteq ElementsOf(completed[t])
            /\ ElementsOf(completed[t]) \subseteq executed[t]
            /\ ElementsOf(completed[t]) \cap (raised[t] \cup lost[t]) = {}
            /\ Indices(QueueOf(KeyOf(t))) \cap (raised[t] \cup lost[t]) = {})
  /\ [][ (raised' # raised) => thread_contexts_' = thread_contexts_ ]_vars

\* C16 witness: the body raised in a sub-range that had buffered a record,
\* while the queue holds the two records of a sub-range that completed.
C16_Witness ==
  \E t \in Threads :
    /\ pc[t] = "wait"
    /\ lost[t] # {}
    /\ raised[t] # {}
    /\ Len(QueueOf(KeyOf(t))) = 2

\* thread t is in a ParallelFor that has its task id
Dispatching(t) ==
  call[t].op = "ParallelFor" /\ pc[t] \notin {"idle", "gen_counter"}

\* every queue is keyed by the arena name and the task id of its records
KeyedByNameAndId ==
  \A key \in DOMAIN thread_contexts_ :
    \A k \in 1 .. Len(thread_contexts_[key]) :
      key = UniqueTaskName(thread_contexts_[key][k].task_name,
                           thread_contexts_[key][k].task_instance_id)

\* a step that changes a queue, other than the clear of Release, is a push by
\* one dispatch of a record of its own to the queue of its own key, and leaves
\* every other queue as it was
AppendsToOwnQueue ==
  ( /\ thread_contexts_' # thread_contexts_
    /\ \A u \in Threads : ~(pc[u] = "release_clear" /\ pc'[u] = "idle") ) =>
    \E t \in Threads :
      /\ Dispatching(t)
      /\ DOMAIN thread_contexts_' = DOMAIN thread_contexts_ \cup {KeyOf(t)}
      /\ \A key \in DOMAIN thread_contexts_ \ {KeyOf(t)} :
           thread_contexts_'[key] = thread_contexts_[key]
      /\ \E i \in FullRange(t) :
           thread_contexts_'[KeyOf(t)] = Append(QueueOf(KeyOf(t)), Context(t, i))

\* C17 as stated: two ParallelFor calls in progress never have the same queue
\* key, every queue is keyed by the name and id of its records, and a dispatch
\* appends only to its own queue.
C17_Original ==
  /\ [](\A t1, t2 \in Threads :
          (t1 # t2 /\ Dispatching(t1) /\ Dispatching(t2)) =>
            KeyOf(t1) # KeyOf(t2))
  /\ []KeyedByNameAndId
  /\ [][AppendsToOwnQueue]_vars

\* C17 amended: two ParallelFor calls in progress whose arena names or task
\* ids differ never have the same queue key; every queue is keyed by the name
\* and id of its records; and a dispatch appends only to the queue of its own
\* key.
C17_OwnQueue ==
  /\ [](\A t1, t2 \in Threads :
          ( /\ t1 # t2 /\ Dispatching(t1) /\ Dispatching(t2)
            /\ \/ call[t1].tbb_name # call[t2].tbb_name
               \/ task_id[t1] # task_id[t2] )
          => KeyOf(t1) # KeyOf(t2))
  /\ []KeyedByNameAndId
  /\ [][AppendsToOwnQueue]_vars

\* C17 witness: two dispatches on the same arena name are in progress, one
\* has flushed its record and the queue of the other is still absent.
C17_Witness ==
  \E t1, t2 \in Threads :
    /\ t1 # t2 /\ Dispatching(t1) /\ Dispatching(t2)
    /\ call[t1].tbb_name = call[t2].tbb_name
    /\ task_id[t1] # task_id[t2]
    /\ Len(QueueOf(KeyOf(t1))) = 1
    /\ KeyOf(t2) \notin DOMAIN thread_contexts_

\* the id has the timestamp the call read in its high part and the counter
\* value the call obtained in its low part
IdLayout ==
  \A e \in increments :
    /\ e.ts \in 0 .. TsMod - 1
    /\ e.counter \in 0 .. CounterMod - 1
    /\ e.id \div CounterMod = e.ts
    /\ e.id % CounterMod = e.counter

\* C18 as stated: an id is the truncated timestamp above the counter, and two
\* calls that obtained the same counter value return different ids whenever
\* the truncated clock stood at different values at their two increments.
C18_Original ==
  /\ IdLayout
  /\ \A a, b \in increments :
       (a.counter = b.counter /\ a.at # b.at) => a.id # b.id

\* C18 amended: an id is the truncated timestamp above the counter, and two
\* calls that obtained the same counter value return different ids whenever
\* the truncated timestamps the two calls read differ; two calls return the
\* same id only when both their counter values and their timestamps are equal.
C18_DistinctByTimestampRead ==
  /\ IdLayout
  /\ \A a, b \in increments :
       /\ (a.counter = b.counter /\ a.ts # b.ts) => a.id # b.id
       /\ a.id = b.id => (a.counter = b.counter /\ a.ts = b.ts)

\* C18 witness: after a wrap of the counter two calls have obtained the same
\* counter value with different timestamps.
C18_Witness ==
  \E a, b \in increments :
    a.counter = b.counter /\ a.ts # b.ts /\ returned > CounterMod

\* thread t leaves Init, or the ParallelFor that called it, by the exception
\* of a failed resolution
InitFails(t) == pc[t] = "init_second" /\ pc'[t] = "idle" /\ outcome'[t] = "error"

\* C19: Init fails exactly when it has to construct an arena and the flag text
\* has a count that is no integer; the failing step hands the error to the
\* caller, constructs nothing, leaves the arena map as it was and releases
\* arenas_mutex_; and no thread holds a mutex outside a call, so later calls of
\* Init and Release can take it.
C19_FailedInitLeavesMap ==
  /\ [][ \A t \in Threads :
           /\ InitFails(t) =>
                /\ ~CountsValid(FLAGS_custom_tbb_parallel_control)
                /\ task_arenas_' = task_arenas_
                /\ arena_objs' = arena_objs
                /\ arenas_mutex_ = t /\ arenas_mutex_' = 0
           /\ (pc[t] = "init_second" /\ pc'[t] # "init_second"
               /\ ~SecondCheckHit(call[t].tbb_name)
               /\ ~CountsValid(FLAGS_custom_tbb_parallel_control))
              => InitFails(t) ]_vars
  /\ [](\A t \in Threads :
          pc[t] = "idle" => (arenas_mutex_ # t /\ contexts_mutex_ # << t >>))
  /\ [](\A name \in DOMAIN task_arenas_ : task_arenas_[name].initialized)

\* C19 witness: with a count that is no integer in the flag text, an Init has
\* failed, and afterwards a Release of another thread has taken both mutexes.
C19_Witness ==
  \E t1, t2 \in Threads :
    /\ pc[t1] = "idle" /\ outcome[t1] = "error"
    /\ pc[t2] = "release_clear"
    /\ ~CountsValid(FLAGS_custom_tbb_parallel_control)

\* Release has cleared the arena map since the dispatch of thread t, still in
\* flight, obtained its arena
ReleasedInFlight(t) == pc[t] = "wait" /\ arena[t] <= released

\* C20: the arena a dispatch in flight obtained is not destroyed, also after a
\* Release has cleared the map; the dispatch keeps that arena until it
\* returns; a dispatch that returns normally has run the body on every element
\* of its range; and a dispatch in flight when Release ran does return.
C20_ArenaOutlivesRelease ==
  /\ [](\A t \in Threads : pc[t] = "wait" => ~Destroyed(arena[t]))
  /\ [][ \A t \in Threads :
           /\ (pc[t] = "wait" /\ pc'[t] = "wait") => arena'[t] = arena[t]
           /\ (ReleasedInFlight(t) /\ pc'[t] = "idle" /\ outcome'[t] = "ok") =>
                executed[t] = FullRange(t) ]_vars
  /\ \A t \in Threads : ReleasedInFlight(t) ~> (pc[t] = "idle")

\* C20 witness: Release has cleared the map while a dispatch is in flight;
\* the dispatch, whose arena is in the map no more, executes a body and has a
\* sub-range still to start.
C20_Witness ==
  \E t \in Threads :
    /\ ReleasedInFlight(t)
    /\ arena[t] \notin MapRefs
    /\ \E cb \in callbacks[t] : cb.at = "task"
    /\ ranges[t] # {}

=============================================================================
